---- MODULE Spec2Model ----
(***************************************************************************)
(* A model of the Notebook container of term-notebook (src/notebook.py):   *)
(* the ordered list of cells held by cell_container, the last_focused      *)
(* pointer, the validity flag set by load_notebook, the load / save        *)
(* mapping to the .ipynb file, and the run-all loop over the kernel.       *)
(*                                                                         *)
(* CodeCell, MarkdownCell, NotebookKernel and SaveAsScreen are imported by *)
(* notebook.py from modules of their own; what the Notebook needs of them  *)
(* (an empty cell, from_nb / to_nb, run_cell, the kernel's states) is      *)
(* modelled from the specification and marked so where it is defined.      *)
(***************************************************************************)
EXTENDS Integers, Sequences, FiniteSets, TLC

\* Bounds of the model.
MaxAdds == 1         \* calls of add_cell in one session
MaxExec == 1         \* requests submitted to the kernel in one session

None == 0            \* Python's None for last_focused / execution_count / pending

VARIABLES
    path,             \* self.path, a sequence of path tokens
    file,             \* what the file system holds at self.path (Absent if nothing)
    phase,            \* "constructed" | "mounted" | "crashed" | "unmounted"
    valid_notebook,   \* the reactive valid_notebook
    display,          \* what watch_valid_notebook shows: "cells" | "label"
    children,         \* self.cell_container.children: sequence of cell ids
    cells,            \* cells[id]: the data of every cell widget constructed so far
    last_focused,     \* self.last_focused: a cell id or None
    screen,           \* the app's current screen: "main" | "save_as_screen"
    nb_metadata,      \* self._metadata
    nbformat,         \* self._nbformat
    nbformat_minor,   \* self._nbformat_minor
    kernel,           \* the NotebookKernel session
    run,              \* the run-all loop of on_button_pressed
    hist              \* history of the session, read only by the properties

vars == <<path, file, phase, valid_notebook, display, children, cells,
          last_focused, screen, nb_metadata, nbformat, nbformat_minor,
          kernel, run, hist>>

----------------------------------------------------------------------------
\* Paths.  A path is a sequence of tokens: "." or a name without dots.

SENTINEL == <<"new_empty_terminal_notebook">>

IPYNB == <<".", "ipynb">>

Paths ==
    { SENTINEL,
      <<"nb", ".", "ipynb">>,
      <<"notes", ".", "txt">>,
      <<".", "ipynb">> }

\* os.path.splitext(p)[1]: from the last dot on, unless only dots precede it.
splitext_ext(p) ==
    LET dots == { i \in 1..Len(p) : p[i] = "." }
        last == CHOOSE i \in dots : \A j \in dots : j <= i
    IN  IF dots = {} THEN <<>>
        ELSE IF \E j \in 1..(last - 1) : p[j] # "." THEN SubSeq(p, last, Len(p))
        ELSE <<>>

----------------------------------------------------------------------------
\* Cells and interchange records.

Kinds == {"Code", "Narrative"}

\* A freshly constructed cell widget: cell_type(**cell_kwargs) with no source.
EmptyCell(kind) ==
    [kind |-> kind, source |-> "", outputs |-> <<>>, execution_count |-> None]

\* CodeCell.to_nb / MarkdownCell.to_nb: the record of one cell.
cell_to_nb(c) ==
    IF c.kind = "Code"
    THEN [cell_type |-> "code", source |-> c.source, outputs |-> c.outputs,
          execution_count |-> c.execution_count]
    ELSE [cell_type |-> "markdown", source |-> c.source]

\* The keys CodeCell.from_nb / MarkdownCell.from_nb read from a record.
RequiredKeys(cell_type) ==
    IF cell_type = "code" THEN {"source", "outputs", "execution_count"}
    ELSE {"source"}

\* CodeCell.from_nb / MarkdownCell.from_nb: the cell of one record.
cell_from_nb(rec) ==
    IF rec.cell_type = "code"
    THEN [kind |-> "Code", source |-> rec.source, outputs |-> rec.outputs,
          execution_count |-> rec.execution_count]
    ELSE [kind |-> "Narrative", source |-> rec.source, outputs |-> <<>>,
          execution_count |-> None]

CodeRec(src, outs, ec) ==
    [cell_type |-> "code", source |-> src, outputs |-> outs, execution_count |-> ec]

MarkdownRec(src) == [cell_type |-> "markdown", source |-> src]

\* Nothing at the path.
Absent == [absent |-> TRUE]

\* A file whose text is not JSON.
Garbage == [json |-> FALSE]

NbFile(meta, major, minor, recs) ==
    [json |-> TRUE, metadata |-> meta, nbformat |-> major,
     nbformat_minor |-> minor, cells |-> recs]

\* A notebook written by another tool: its own metadata and minor version.
TwoCells ==
    NbFile([kernelspec |-> "python3", title |-> "t"], 4, 2,
           <<CodeRec("x", <<"o">>, 1), MarkdownRec("m")>>)

\* A notebook with no cells.
NoCells == NbFile([kernelspec |-> "python3"], 4, 5, <<>>)

\* A notebook holding a cell of a kind the editor does not know.
RawCell ==
    NbFile([kernelspec |-> "python3"], 4, 5,
           <<[cell_type |-> "raw", source |-> "r"], CodeRec("x", <<>>, None)>>)

\* A notebook whose second record has no cell_type.
NoCellType ==
    NbFile([kernelspec |-> "python3"], 4, 5,
           <<CodeRec("x", <<>>, None), [source |-> "m"]>>)

\* The files a session may be opened on.
FileContents == {NoCells, TwoCells, RawCell, NoCellType, Garbage}

\* os.path.exists(self.path)
exists(f) == f # Absent

\* The for loop of load_notebook over content["cells"], from record i on:
\* the cells mounted so far and the exception that ended the loop, if any.
RECURSIVE LoadFrom(_, _, _)
LoadFrom(recs, i, acc) ==
    IF i > Len(recs) THEN [mounted |-> acc, error |-> "none"]
    ELSE LET rec == recs[i] IN
         IF "cell_type" \notin DOMAIN rec
         THEN [mounted |-> acc, error |-> "KeyError"]
         ELSE IF rec.cell_type \in {"code", "markdown"}
         THEN IF RequiredKeys(rec.cell_type) \subseteq DOMAIN rec
              THEN LoadFrom(recs, i + 1, Append(acc, cell_from_nb(rec)))
              ELSE [mounted |-> acc, error |-> "KeyError"]
         ELSE LoadFrom(recs, i + 1, acc)

\* The with block of load_notebook: json.load, then the loop.
LoadCells(content) ==
    IF ~content.json THEN [mounted |-> <<>>, error |-> "JSONDecodeError"]
    ELSE IF "cells" \notin DOMAIN content THEN [mounted |-> <<>>, error |-> "KeyError"]
    ELSE LoadFrom(content.cells, 1, <<>>)

----------------------------------------------------------------------------
\* The kernel session (NotebookKernel).

KernelStates == {"Unstarted", "Idle", "Busy", "Dead"}

\* NotebookKernel(): a session whose process is started on first use.
NewKernel == [state |-> "Unstarted", counter |-> 1, pending |-> None, submitted |-> 0]

\* get_kernel_spec / get_kernel_info / get_language_info: static snapshots.
get_kernel_spec == "python3"

get_kernel_info == "ipykernel"

get_language_info == "python"

----------------------------------------------------------------------------
\* Initial state: Notebook.__init__(path, id) on some path of some file system.

NBFORMAT == 4

NBFORMAT_MINOR == 5

Hist0 ==
    [op |-> "init", anchor |-> None, pos |-> "", inserts |-> 0, removes |-> 0,
     adds |-> 0,
     opened |-> Absent, error |-> "none",
     n0 |-> 0, ran |-> <<>>]

\* The sessions explored: the unsaved notebook, the notebook path on a
\* missing file and on every file, and the other paths on a notebook file.
Sessions ==
    { <<p, f>> \in Paths \X (FileContents \cup {Absent}) :
        \/ p = SENTINEL /\ f = Absent
        \/ p = <<"nb", ".", "ipynb">>
        \/ p \notin {SENTINEL, <<"nb", ".", "ipynb">>} /\ f = TwoCells }

Init ==
    /\ \E s \in Sessions : path = s[1] /\ file = s[2]
    /\ phase = "constructed"
    /\ valid_notebook = TRUE
    /\ display = "cells"
    /\ children = <<>>
    /\ cells = <<>>
    /\ last_focused = None
    /\ screen = "main"
    /\ nb_metadata = None
    /\ nbformat = NBFORMAT
    /\ nbformat_minor = NBFORMAT_MINOR
    /\ kernel = NewKernel
    /\ run = [pc |-> "idle", idx |-> 0]
    /\ hist = Hist0

Ids == 1..Len(cells)

InSeq(c) == \E i \in 1..Len(children) : children[i] = c

IndexOf(c) == CHOOSE i \in 1..Len(children) : children[i] = c

\* The operations whose last occurrence the properties read.
Tracked == {"add_cell", "delete_cell", "save"}

\* No run-all is suspended and no request is outstanding.
Quiet == run.pc = "idle" /\ kernel.state # "Busy"

\* What each operation records of itself for the properties: its name, the
\* focus it found (add_cell and delete_cell), the exception it raised, and the
\* cells it inserted and removed.  The record of the request that is
\* outstanding (the number of cells constructed when it was submitted and,
\* for a run-all, the cells the loop has submitted) is kept until the run-all
\* ends or the next operation finds the notebook quiet.
Record(op, error, nIns, nRem) ==
    hist' = [hist EXCEPT !.op = IF op \in Tracked THEN op ELSE "other",
                         !.anchor = IF op = "delete_cell" THEN last_focused ELSE None,
                         !.pos = "",
                         !.error = error,
                         !.inserts = @ + nIns, !.removes = @ + nRem,
                         !.n0 = IF Quiet THEN 0 ELSE @,
                         !.ran = IF Quiet THEN <<>> ELSE @]

\* What add_cell records: the focus it found and the position it was given.
RecordAdd(position) ==
    hist' = [hist EXCEPT !.op = "add_cell", !.anchor = last_focused,
                         !.pos = position, !.error = "none",
                         !.inserts = @ + 1, !.adds = @ + 1,
                         !.n0 = IF Quiet THEN 0 ELSE @,
                         !.ran = IF Quiet THEN <<>> ELSE @]

\* What run_cell on the cell c, asked for on the cell itself, records.
RecordCell(c, error) ==
    hist' = [hist EXCEPT !.op = "other", !.anchor = c, !.pos = "",
                         !.error = error,
                         !.n0 = IF error = "none" /\ Quiet THEN Len(cells)
                                ELSE IF Quiet THEN 0 ELSE @,
                         !.ran = IF Quiet THEN <<>> ELSE @]

\* What the run-all loop records when it submits the cell child: how many
\* cells had been constructed when the loop started, and the cells it has
\* submitted so far.
RecordRun(child) ==
    hist' = [hist EXCEPT !.op = "other", !.anchor = None, !.pos = "",
                         !.error = "none",
                         !.n0 = IF run.pc = "idle" THEN Len(cells) ELSE @,
                         !.ran = (IF run.pc = "idle" THEN <<>> ELSE @) \o <<child>>]

\* What the run-all loop records when it ends.
RecordEnd(error) ==
    hist' = [hist EXCEPT !.op = "other", !.anchor = None, !.pos = "",
                         !.error = error, !.n0 = 0, !.ran = <<>>]

----------------------------------------------------------------------------
\* watch_valid_notebook: the cell area is displayed iff the notebook is valid.
watch_valid_notebook(is_valid) == display' = IF is_valid THEN "cells" ELSE "label"

\* load_notebook without the test of the extension.
load_notebook_any_extension ==
    IF path = SENTINEL
    THEN /\ UNCHANGED <<valid_notebook, display, children, cells>>
         /\ Record("load", "none", 0, 0)
    ELSE IF ~exists(file)
    THEN /\ valid_notebook' = FALSE
         /\ watch_valid_notebook(FALSE)
         /\ UNCHANGED <<children, cells>>
         /\ Record("load", "none", 0, 0)
    ELSE LET got == LoadCells(file)
             n == Len(got.mounted)
         IN  /\ cells' = cells \o got.mounted
             /\ children' = children \o [i \in 1..n |-> Len(cells) + i]
             /\ UNCHANGED <<valid_notebook, display>>
             /\ hist' = [hist EXCEPT !.op = "other", !.error = got.error,
                                     !.opened = file,
                                     !.inserts = @ + n]

\* load_notebook, called once by on_mount.
load_notebook ==
    IF path = SENTINEL
    THEN /\ UNCHANGED <<valid_notebook, display, children, cells>>
         /\ Record("load", "none", 0, 0)
    ELSE IF ~exists(file)
    THEN /\ valid_notebook' = FALSE
         /\ watch_valid_notebook(FALSE)
         /\ UNCHANGED <<children, cells>>
         /\ Record("load", "none", 0, 0)
    ELSE IF splitext_ext(path) # IPYNB
    THEN /\ valid_notebook' = FALSE
         /\ watch_valid_notebook(FALSE)
         /\ UNCHANGED <<children, cells>>
         /\ Record("load", "none", 0, 0)
    ELSE LET got == LoadCells(file)
             n == Len(got.mounted)
         IN  /\ cells' = cells \o got.mounted
             /\ children' = children \o [i \in 1..n |-> Len(cells) + i]
             /\ UNCHANGED <<valid_notebook, display>>
             /\ hist' = [hist EXCEPT !.op = "other", !.error = got.error,
                                     !.opened = file,
                                     !.inserts = @ + n]

\* on_mount: load the notebook; an exception escaping the handler ends the app.
on_mount ==
    /\ phase = "constructed"
    /\ load_notebook
    /\ phase' = IF hist'.error = "none" THEN "mounted" ELSE "crashed"
    /\ UNCHANGED <<path, file, last_focused, screen, nb_metadata, nbformat,
                   nbformat_minor, kernel, run>>

----------------------------------------------------------------------------
\* The cell sequence.

\* cell_container.mount(widget, before=anchor) / mount(widget, after=anchor):
\* with no anchor the widget is appended; an anchor that is not a child is a
\* MountError and nothing is inserted.
Mount(seq, w, position, anchor) ==
    IF anchor = None THEN Append(seq, w)
    ELSE IF ~\E i \in 1..Len(seq) : seq[i] = anchor THEN seq
    ELSE LET i == CHOOSE k \in 1..Len(seq) : seq[k] = anchor
             at == IF position = "before" THEN i ELSE i + 1
         IN  SubSeq(seq, 1, at - 1) \o <<w>> \o SubSeq(seq, at, Len(seq))

\* widget.remove(): the widget leaves its parent's children.
Remove(seq, w) == SelectSeq(seq, LAMBDA x : x # w)

\* The handlers of the main screen run while the view is mounted and shown.
Live == phase = "mounted" /\ screen = "main"

\* add_cell that focuses the new cell whatever the focus was.
add_cell_always_focuses(kind, position) ==
    LET widget == Len(cells) + 1 IN
    /\ hist.adds < MaxAdds
    /\ cells' = Append(cells, EmptyCell(kind))
    /\ children' = Mount(children, widget, position, last_focused)
    /\ last_focused' = widget
    /\ RecordAdd(position)

\* add_cell that mounts after the focus whatever position says.
add_cell_ignores_position(kind, position) ==
    LET widget == Len(cells) + 1 IN
    /\ hist.adds < MaxAdds
    /\ cells' = Append(cells, EmptyCell(kind))
    /\ children' = Mount(children, widget, "after", last_focused)
    /\ last_focused' = IF last_focused = None THEN widget ELSE last_focused
    /\ RecordAdd(position)

\* add_cell that mounts the focused widget where it should mount the new one.
add_cell_mounts_focused(kind, position) ==
    LET widget == Len(cells) + 1 IN
    /\ hist.adds < MaxAdds
    /\ cells' = Append(cells, EmptyCell(kind))
    /\ children' = Mount(children,
                         IF last_focused = None THEN widget ELSE last_focused,
                         position, last_focused)
    /\ last_focused' = IF last_focused = None THEN widget ELSE last_focused
    /\ RecordAdd(position)

\* add_cell(cell_type, position).  mount registers the widget among the
\* children at once; the await that follows ends when the new widget has
\* handled its own Mount event, and the handler is taken as one step.
add_cell(kind, position) ==
    LET widget == Len(cells) + 1 IN
    /\ hist.adds < MaxAdds
    /\ cells' = Append(cells, EmptyCell(kind))
    /\ children' = Mount(children, widget, position, last_focused)
    /\ last_focused' = IF last_focused = None THEN widget ELSE last_focused
    /\ RecordAdd(position)

\* action_add_cell_after (key a)
action_add_cell_after ==
    /\ Live
    /\ add_cell("Code", "after")
    /\ UNCHANGED <<path, file, phase, valid_notebook, display, screen,
                   nb_metadata, nbformat, nbformat_minor, kernel, run>>

\* action_add_cell_before (key b)
action_add_cell_before ==
    /\ Live
    /\ add_cell("Code", "before")
    /\ UNCHANGED <<path, file, phase, valid_notebook, display, screen,
                   nb_metadata, nbformat, nbformat_minor, kernel, run>>

\* A removed widget that no request refers to is garbage: its data is dropped.
Removed == [kind |-> "Removed", source |-> "", outputs |-> <<>>,
            execution_count |-> None]

Release(w) ==
    IF w \in Ids /\ kernel.pending # w THEN [cells EXCEPT ![w] = Removed] ELSE cells

\* action_delete_cell without the line that clears last_focused.
action_delete_cell_keeps_focus ==
    /\ Live
    /\ IF last_focused # None
       THEN /\ children' = Remove(children, last_focused)
            /\ cells' = Release(last_focused)
            /\ Record("delete_cell", "none", 0, IF InSeq(last_focused) THEN 1 ELSE 0)
       ELSE /\ UNCHANGED <<children, cells>>
            /\ Record("delete_cell", "none", 0, 0)
    /\ UNCHANGED <<path, file, phase, valid_notebook, display, last_focused, screen,
                   nb_metadata, nbformat, nbformat_minor, kernel, run>>

\* action_delete_cell that moves the focus to the first remaining cell.
action_delete_cell_refocuses ==
    /\ Live
    /\ IF last_focused # None
       THEN /\ children' = Remove(children, last_focused)
            /\ cells' = Release(last_focused)
            /\ last_focused' = IF Len(children') > 0 THEN children'[1] ELSE None
            /\ Record("delete_cell", "none", 0, IF InSeq(last_focused) THEN 1 ELSE 0)
       ELSE /\ UNCHANGED <<children, cells, last_focused>>
            /\ Record("delete_cell", "none", 0, 0)
    /\ UNCHANGED <<path, file, phase, valid_notebook, display, screen,
                   nb_metadata, nbformat, nbformat_minor, kernel, run>>

\* action_delete_cell (ctrl+d)
action_delete_cell ==
    /\ Live
    /\ IF last_focused # None
       THEN /\ children' = Remove(children, last_focused)
            /\ cells' = Release(last_focused)
            /\ last_focused' = None
            /\ Record("delete_cell", "none", 0, IF InSeq(last_focused) THEN 1 ELSE 0)
       ELSE /\ UNCHANGED <<children, cells, last_focused>>
            /\ Record("delete_cell", "none", 0, 0)
    /\ UNCHANGED <<path, file, phase, valid_notebook, display, screen,
                   nb_metadata, nbformat, nbformat_minor, kernel, run>>

\* The widgets below the Notebook that can take the focus: the buttons, the
\* cell container, every mounted cell and the editor inside it (owner is the
\* editor's parent.parent).
Widgets ==
    {[type |-> "Button", owner |-> None], [type |-> "VerticalScroll", owner |-> None]}
    \cup { [type |-> IF cells[children[i]].kind = "Code" THEN "CodeCell"
                     ELSE "MarkdownCell",
            owner |-> children[i]] : i \in 1..Len(children) }
    \cup { [type |-> IF cells[children[i]].kind = "Code" THEN "CodeArea"
                     ELSE "FocusMarkdown",
            owner |-> children[i]] : i \in 1..Len(children) }
    \cup { [type |-> "TextArea", owner |-> children[i]] :
             i \in { k \in 1..Len(children) : cells[children[k]].kind = "Narrative" } }

\* on_descendant_focus(event)
on_descendant_focus(widget) ==
    /\ Live
    /\ IF widget.type \in {"CodeCell", "MarkdownCell"}
       THEN last_focused' = widget.owner
       ELSE IF widget.type \in {"CodeArea", "FocusMarkdown", "TextArea"}
       THEN last_focused' = widget.owner
       ELSE UNCHANGED last_focused
    /\ Record("focus", "none", 0, 0)
    /\ UNCHANGED <<path, file, phase, valid_notebook, display, children, cells,
                   screen, nb_metadata, nbformat, nbformat_minor, kernel, run>>

----------------------------------------------------------------------------
\* Saving.

\* to_nb that walks the cells in the order they were constructed.
to_nb_creation_order ==
    LET live == SelectSeq([i \in 1..Len(cells) |-> i], InSeq) IN
    [json |-> TRUE,
     metadata |-> [kernel_info |-> get_kernel_info,
                   kernel_spec |-> get_kernel_spec,
                   language_info |-> get_language_info],
     nbformat |-> nbformat,
     nbformat_minor |-> nbformat_minor,
     cells |-> [i \in 1..Len(live) |-> cell_to_nb(cells[live[i]])]]

\* to_nb(): the notebook as one interchange record.
to_nb ==
    [json |-> TRUE,
     metadata |-> [kernel_info |-> get_kernel_info,
                   kernel_spec |-> get_kernel_spec,
                   language_info |-> get_language_info],
     nbformat |-> nbformat,
     nbformat_minor |-> nbformat_minor,
     cells |-> [i \in 1..Len(children) |-> cell_to_nb(cells[children[i]])]]

\* action_save_as (ctrl+w): switch to the save-as screen.
save_as == screen' = "save_as_screen"

action_save_as ==
    /\ Live
    /\ save_as
    /\ Record("save_as", "none", 0, 0)
    /\ UNCHANGED <<path, file, phase, valid_notebook, display, children, cells,
                   last_focused, nb_metadata, nbformat, nbformat_minor, kernel, run>>

\* action_save that marks the notebook valid once its file is written.
action_save_revalidates(io) ==
    /\ Live
    /\ IF path = SENTINEL
       THEN /\ io = "ok"
            /\ save_as
            /\ Record("save", "none", 0, 0)
            /\ UNCHANGED <<file, phase, valid_notebook>>
       ELSE /\ file' = IF io = "ok" THEN to_nb ELSE Garbage
            /\ phase' = IF io = "ok" THEN phase ELSE "crashed"
            /\ valid_notebook' = TRUE
            /\ Record("save", IF io = "ok" THEN "none" ELSE "OSError", 0, 0)
            /\ UNCHANGED screen
    /\ UNCHANGED <<path, display, children, cells, last_focused,
                   nb_metadata, nbformat, nbformat_minor, kernel, run>>

\* action_save (ctrl+s).  open(path, "w") truncates the file and json.dump
\* writes it; io is how the write ends: "ok", or "fail" when it stops after
\* the truncation (the exception leaves the handler).
action_save(io) ==
    /\ Live
    /\ IF path = SENTINEL
       THEN /\ io = "ok"
            /\ save_as
            /\ Record("save", "none", 0, 0)
            /\ UNCHANGED <<file, phase>>
       ELSE /\ file' = IF io = "ok" THEN to_nb ELSE Garbage
            /\ phase' = IF io = "ok" THEN phase ELSE "crashed"
            /\ Record("save", IF io = "ok" THEN "none" ELSE "OSError", 0, 0)
            /\ UNCHANGED screen
    /\ UNCHANGED <<path, valid_notebook, display, children, cells, last_focused,
                   nb_metadata, nbformat, nbformat_minor, kernel, run>>

\* SaveAsScreen hands control back to the main screen.
save_as_screen_dismiss ==
    /\ phase = "mounted"
    /\ screen = "save_as_screen"
    /\ screen' = "main"
    /\ Record("dismiss", "none", 0, 0)
    /\ UNCHANGED <<path, file, phase, valid_notebook, display, children, cells,
                   last_focused, nb_metadata, nbformat, nbformat_minor, kernel, run>>

----------------------------------------------------------------------------
\* The button row and the run-all loop.

\* restart_kernel(): kill the process, drop the pending request, reset the counter.
\* The call returns once the new process is ready.
restart_kernel ==
    kernel' = [kernel EXCEPT !.state = "Idle", !.counter = 1, !.pending = None]

\* The for loop of run-all, "for child in self.cell_container.children",
\* from iterator index i on with the kernel as k: the iterator reads the live
\* list at its index; children that are not Code cells are passed over, the
\* first Code child is run and awaited, and the loop ends past the last child.
\* CodeCell.run_cell submits to the kernel, which takes a request only when
\* it is neither busy nor dead; the error it raises ends the handler.
run_all_from(i, k) ==
    LET later == { j \in i..Len(children) : cells[children[j]].kind = "Code" } IN
    IF later = {}
    THEN /\ run' = [pc |-> "idle", idx |-> 0]
         /\ kernel' = k
         /\ RecordEnd("none")
         /\ UNCHANGED phase
    ELSE LET j == CHOOSE x \in later : \A y \in later : x <= y
             child == children[j]
         IN  IF k.state \in {"Unstarted", "Idle"}
             THEN /\ k.submitted < MaxExec
                  /\ kernel' = [k EXCEPT !.state = "Busy", !.pending = child,
                                         !.submitted = @ + 1]
                  /\ run' = [pc |-> "await", idx |-> j + 1]
                  /\ RecordRun(child)
                  /\ UNCHANGED phase
             ELSE /\ run' = [pc |-> "idle", idx |-> 0]
                  /\ kernel' = k
                  /\ phase' = "crashed"
                  /\ RecordEnd(IF k.state = "Dead" THEN "KernelDeadError"
                                 ELSE "KernelBusyError")

Buttons == {"add-code-cell", "add-markdown-cell", "restart-shell", "run-all"}

\* on_button_pressed(event): the buttons are shown only while display is
\* "cells"; the handler runs to its end before the next press is handled.
on_button_pressed(button) ==
    /\ Live
    /\ display = "cells"
    /\ run.pc = "idle"
    /\ CASE button = "add-code-cell" ->
              /\ add_cell("Code", "after")
              /\ UNCHANGED <<kernel, run, phase>>
         [] button = "add-markdown-cell" ->
              /\ add_cell("Narrative", "after")
              /\ UNCHANGED <<kernel, run, phase>>
         [] button = "restart-shell" ->
              /\ restart_kernel
              /\ Record("restart", "none", 0, 0)
              /\ UNCHANGED <<children, cells, last_focused, run, phase>>
         [] button = "run-all" ->
              /\ run_all_from(1, kernel)
              /\ UNCHANGED <<children, cells, last_focused>>
    /\ UNCHANGED <<path, file, valid_notebook, display, screen,
                   nb_metadata, nbformat, nbformat_minor>>

\* run_cell that hands a request to a busy kernel, which takes it in place of
\* the one it is working on.
run_cell_queues(c) ==
    /\ Live
    /\ display = "cells"
    /\ InSeq(c)
    /\ cells[c].kind = "Code"
    /\ IF kernel.state \in {"Unstarted", "Idle"}
       THEN /\ kernel.submitted < MaxExec
            /\ kernel' = [kernel EXCEPT !.state = "Busy", !.pending = c,
                                        !.submitted = @ + 1]
            /\ RecordCell(c, "none")
       ELSE IF kernel.state = "Busy"
       THEN /\ kernel' = [kernel EXCEPT !.pending = c]
            /\ RecordCell(c, "none")
       ELSE /\ UNCHANGED kernel
            /\ RecordCell(c, "KernelDeadError")
    /\ UNCHANGED <<path, file, phase, valid_notebook, display, children, cells,
                   last_focused, screen, nb_metadata, nbformat, nbformat_minor, run>>

\* CodeCell.run_cell on the cell c, asked for on the cell itself and not by
\* the run-all loop: the kernel takes the request only when it is neither
\* busy nor dead; otherwise the call fails and nothing is changed.
run_cell(c) ==
    /\ Live
    /\ display = "cells"
    /\ InSeq(c)
    /\ cells[c].kind = "Code"
    /\ IF kernel.state \in {"Unstarted", "Idle"}
       THEN /\ kernel.submitted < MaxExec
            /\ kernel' = [kernel EXCEPT !.state = "Busy", !.pending = c,
                                        !.submitted = @ + 1]
            /\ RecordCell(c, "none")
       ELSE /\ UNCHANGED kernel
            /\ RecordCell(c, IF kernel.state = "Dead" THEN "KernelDeadError"
                             ELSE "KernelBusyError")
    /\ UNCHANGED <<path, file, phase, valid_notebook, display, children, cells,
                   last_focused, screen, nb_metadata, nbformat, nbformat_minor, run>>

\* kernel_reply that writes the result into the cell that has the focus.
kernel_reply_into_focus(outcome) ==
    /\ phase = "mounted"
    /\ kernel.state = "Busy"
    /\ IF outcome = "ok"
       THEN /\ cells' = [cells EXCEPT
                            ![IF last_focused # None THEN last_focused
                              ELSE kernel.pending] =
                            [@ EXCEPT !.outputs = <<"r">>,
                                      !.execution_count = kernel.counter]]
            /\ IF run.pc = "await"
               THEN run_all_from(run.idx,
                                 [kernel EXCEPT !.state = "Idle", !.counter = @ + 1,
                                                !.pending = None])
               ELSE /\ kernel' = [kernel EXCEPT !.state = "Idle", !.counter = @ + 1,
                                                !.pending = None]
                    /\ Record("run_cell", "none", 0, 0)
                    /\ UNCHANGED <<run, phase>>
       ELSE /\ kernel' = [kernel EXCEPT
                             !.state = IF outcome = "crash" THEN "Dead" ELSE "Idle",
                             !.pending = None]
            /\ UNCHANGED cells
            /\ IF run.pc = "await"
               THEN /\ run' = [pc |-> "idle", idx |-> 0]
                    /\ phase' = "crashed"
                    /\ RecordEnd("ExecutionError")
               ELSE /\ Record("run_cell", "ExecutionError", 0, 0)
                    /\ UNCHANGED <<run, phase>>
    /\ UNCHANGED <<path, file, valid_notebook, display, children, last_focused,
                   screen, nb_metadata, nbformat, nbformat_minor>>

\* The kernel answers the pending request: a result, an error of the code
\* that was run, or the process dies.  A result is written into the cell the
\* request was submitted for; a failure is raised to the awaiting run_cell and
\* leaves the cell as it was.  The run-all loop goes on after a result; the
\* exception of a failure leaves its handler, which has no try around the await.
kernel_reply(outcome) ==
    /\ phase = "mounted"
    /\ kernel.state = "Busy"
    /\ IF outcome = "ok"
       THEN /\ cells' = [cells EXCEPT ![kernel.pending] =
                            [@ EXCEPT !.outputs = <<"r">>,
                                      !.execution_count = kernel.counter]]
            /\ IF run.pc = "await"
               THEN run_all_from(run.idx,
                                 [kernel EXCEPT !.state = "Idle", !.counter = @ + 1,
                                                !.pending = None])
               ELSE /\ kernel' = [kernel EXCEPT !.state = "Idle", !.counter = @ + 1,
                                                !.pending = None]
                    /\ Record("run_cell", "none", 0, 0)
                    /\ UNCHANGED <<run, phase>>
       ELSE /\ kernel' = [kernel EXCEPT
                             !.state = IF outcome = "crash" THEN "Dead" ELSE "Idle",
                             !.pending = None]
            /\ UNCHANGED cells
            /\ IF run.pc = "await"
               THEN /\ run' = [pc |-> "idle", idx |-> 0]
                    /\ phase' = "crashed"
                    /\ RecordEnd("ExecutionError")
               ELSE /\ Record("run_cell", "ExecutionError", 0, 0)
                    /\ UNCHANGED <<run, phase>>
    /\ UNCHANGED <<path, file, valid_notebook, display, children, last_focused,
                   screen, nb_metadata, nbformat, nbformat_minor>>

\* on_unmount that shuts down only a kernel whose process was started.
on_unmount_started_only ==
    /\ phase \in {"mounted", "crashed"}
    /\ phase' = "unmounted"
    /\ kernel' = IF kernel.state = "Unstarted" THEN kernel
                 ELSE [kernel EXCEPT !.state = "Dead", !.pending = None]
    /\ Record("unmount", "none", 0, 0)
    /\ UNCHANGED <<path, file, valid_notebook, display, children, cells,
                   last_focused, screen, nb_metadata, nbformat, nbformat_minor, run>>

\* on_unmount: the kernel the constructor made is shut down.
on_unmount ==
    /\ phase \in {"mounted", "crashed"}
    /\ phase' = "unmounted"
    /\ kernel' = [kernel EXCEPT !.state = "Dead", !.pending = None]
    /\ Record("unmount", "none", 0, 0)
    /\ UNCHANGED <<path, file, valid_notebook, display, children, cells,
                   last_focused, screen, nb_metadata, nbformat, nbformat_minor, run>>

----------------------------------------------------------------------------
Next ==
    \/ on_mount
    \/ on_unmount
    \/ \E w \in Widgets : on_descendant_focus(w)
    \/ \E b \in Buttons : on_button_pressed(b)
    \/ action_add_cell_after
    \/ action_add_cell_before
    \/ action_save_as
    \/ \E io \in {"ok", "fail"} : action_save(io)
    \/ save_as_screen_dismiss
    \/ action_delete_cell
    \/ \E o \in {"ok", "error", "crash"} : kernel_reply(o)

Spec == Init /\ [][Next]_vars

\* The handlers that read or write the cells and the kernel (saving leaves
\* both alone), together with the run request a Code cell takes on its own.
NextCell ==
    \/ on_mount
    \/ on_unmount
    \/ \E w \in Widgets : on_descendant_focus(w)
    \/ \E b \in Buttons : on_button_pressed(b)
    \/ action_add_cell_after
    \/ action_add_cell_before
    \/ action_delete_cell
    \/ \E c \in Ids : run_cell(c)
    \/ \E o \in {"ok", "error", "crash"} : kernel_reply(o)

SpecCell == Init /\ [][NextCell]_vars

----------------------------------------------------------------------------
\* Properties.

\* The data of the cells of the sequence, in document order.
Doc == [i \in 1..Len(children) |-> cells[children[i]]]

NoDuplicates(seq) == \A i, j \in 1..Len(seq) : seq[i] = seq[j] => i = j

\* C1: the focus pointer is empty or refers to a cell that is in the cell
\* sequence, after any sequence of load, add, delete and focus notifications.
C1_FocusLive == last_focused = None \/ InSeq(last_focused)

\* A focus on a live cell of a loaded notebook after a cell was added and one
\* was deleted.
C1_Witness ==
    /\ hist.opened = TwoCells
    /\ hist.adds >= 1
    /\ hist.removes >= 1
    /\ last_focused # None
    /\ InSeq(last_focused)

\* The handlers that call add_cell, with the kind and the position each asks for.
AddHandlers == {"a", "b", "add-code-cell", "add-markdown-cell"}

Handles(h) ==
    CASE h = "a" -> action_add_cell_after
      [] h = "b" -> action_add_cell_before
      [] OTHER -> on_button_pressed(h)

RequestedKind(h) == IF h = "add-markdown-cell" THEN "Narrative" ELSE "Code"

RequestedPos(h) == IF h = "b" THEN "before" ELSE "after"

\* A path whose extension is .ipynb: a name, then ".ipynb".
HasIpynbExtension(p) == Len(p) >= 3 /\ SubSeq(p, Len(p) - 1, Len(p)) = <<".", "ipynb">>

\* C2: after loading, the document is valid iff its path is the sentinel of a
\* new unsaved document or names an existing file with the .ipynb extension.
C2_ValidIffSentinelOrIpynbFile ==
    [][on_mount =>
         (valid_notebook' <=>
            (path = <<"new_empty_terminal_notebook">>
             \/ (file # Absent /\ HasIpynbExtension(path))))]_vars

\* An existing file with another extension, loaded and found invalid.
C2_Witness ==
    /\ phase = "mounted"
    /\ path = <<"notes", ".", "txt">>
    /\ file = TwoCells
    /\ ~valid_notebook

\* C3: while the document is invalid, add_cell is rejected with
\* InvalidDocumentError: no cell is constructed or inserted and the cell
\* sequence and the focus stay as they were.
C3_AddRejectedWhenInvalid ==
    [][\A h \in AddHandlers :
         (~valid_notebook /\ Handles(h)) =>
            /\ children' = children
            /\ cells' = cells
            /\ last_focused' = last_focused
            /\ hist'.error = "InvalidDocumentError"]_vars

\* C4: add_cell with an empty focus appends the new cell, for "before" as for
\* "after", and focuses it; with a focus, the focus stays on the same cell.
C4_AddCellFocus ==
    [][\A h \in AddHandlers :
         Handles(h) =>
            LET new == Len(cells) + 1 IN
            IF last_focused = None
            THEN /\ children' = children \o <<new>>
                 /\ last_focused' = new
            ELSE last_focused' = last_focused]_vars

\* A cell added "before" an empty focus to a sequence of two: it is the last
\* child and the focus.
C4_Witness ==
    /\ hist.op = "add_cell"
    /\ hist.anchor = None
    /\ hist.pos = "before"
    /\ Len(children) = 3
    /\ children[3] = Len(cells)
    /\ last_focused = children[3]

\* C5: add_cell with a focus F inserts exactly one new empty cell of the kind
\* asked for, immediately before F for "before" and immediately after F for
\* "after", and keeps the cells that were there in their order.
C5_AddCellAdjacent ==
    [][\A h \in AddHandlers :
         (Handles(h) /\ last_focused # None) =>
            LET new == Len(cells) + 1
                i == IndexOf(last_focused)
            IN  /\ ~InSeq(new)
                /\ Len(children') = Len(children) + 1
                /\ SelectSeq(children', LAMBDA c : c # new) = children
                /\ Len(cells') = new
                /\ cells'[new] = [kind |-> RequestedKind(h), source |-> "",
                                  outputs |-> <<>>, execution_count |-> None]
                /\ \A c \in Ids : cells'[c] = cells[c]
                /\ IF RequestedPos(h) = "before"
                   THEN children'[i] = new /\ children'[i + 1] = last_focused
                   ELSE children'[i] = last_focused /\ children'[i + 1] = new]_vars

\* A cell added before the focused second cell of two: it lies between them.
C5_Witness ==
    /\ hist.op = "add_cell"
    /\ hist.pos = "before"
    /\ hist.anchor = 2
    /\ children = <<1, 3, 2>>
    /\ last_focused = 2

\* C6: delete_focused_cell with a focus removes exactly the focused cell,
\* keeps every other cell in its order and leaves the focus empty; with an
\* empty focus it changes neither the sequence nor the focus (so a second
\* call in a row changes nothing).
C6_DeleteFocused ==
    [][action_delete_cell =>
         IF last_focused # None
         THEN /\ \E i \in 1..Len(children) :
                   /\ children[i] = last_focused
                   /\ children' = SubSeq(children, 1, i - 1)
                                    \o SubSeq(children, i + 1, Len(children))
              /\ last_focused' = None
         ELSE children' = children /\ last_focused' = None]_vars

\* The focused cell of three was deleted: two remain and the focus is empty.
C6_Witness ==
    /\ hist.op = "delete_cell"
    /\ hist.anchor # None
    /\ ~InSeq(hist.anchor)
    /\ Len(children) = 2
    /\ last_focused = None

\* C7: the cell sequence never holds a cell twice, and its length is the
\* number of cells inserted (mounted by the load or by add_cell) minus the
\* number of removes that removed a cell.
C7_NoDuplicatesAndLength ==
    /\ NoDuplicates(children)
    /\ Len(children) = hist.inserts - hist.removes

\* Three cells were inserted and one of them removed.
C7_Witness ==
    /\ hist.inserts = 3
    /\ hist.adds = 1
    /\ hist.removes = 1
    /\ Len(children) = 2

\* C8: once the document is invalid it stays invalid, whatever is done.
C8_InvalidStaysInvalid == [][~valid_notebook => ~valid_notebook']_vars

\* An invalid document after a cell was added and deleted and a save.
C8_Witness ==
    /\ ~valid_notebook
    /\ hist.adds = 1
    /\ hist.removes = 1
    /\ hist.op = "save"
    /\ file # hist.opened

C10_MetadataAndVersionCarried ==
    (hist.op = "save" /\ hist.error = "none" /\ path # SENTINEL
       /\ hist.opened # Absent) =>
        /\ \A k \in DOMAIN hist.opened.metadata :
              k \in DOMAIN file.metadata /\ file.metadata[k] = hist.opened.metadata[k]
        /\ file.nbformat = hist.opened.nbformat
        /\ file.nbformat_minor = hist.opened.nbformat_minor

\* A record that load can turn into a cell: its cell_type is one the editor
\* knows and it has the keys that kind of cell is read from.
StructurallyValid(rec) ==
    /\ "cell_type" \in DOMAIN rec
    /\ rec.cell_type \in {"code", "markdown"}
    /\ RequiredKeys(rec.cell_type) \subseteq DOMAIN rec

\* C11: load is all-or-nothing: if a record of the file is structurally
\* invalid (a required key is missing, or cell_type is neither "code" nor
\* "markdown") load fails with CorruptDocumentError, no cell of the file is
\* left in the cell sequence and the document is marked invalid; otherwise
\* every record becomes one cell of the matching kind, in file order.
C11_LoadAllOrNothing ==
    [][(on_mount /\ path # SENTINEL /\ file # Absent /\ HasIpynbExtension(path)
          /\ file.json) =>
         IF \E i \in 1..Len(file.cells) : ~StructurallyValid(file.cells[i])
         THEN /\ hist'.error = "CorruptDocumentError"
              /\ children' = <<>>
              /\ ~valid_notebook'
         ELSE /\ hist'.error = "none"
              /\ Len(children') = Len(file.cells)
              /\ \A i \in 1..Len(file.cells) :
                    /\ cells'[children'[i]].kind =
                          (IF file.cells[i].cell_type = "code" THEN "Code"
                           ELSE "Narrative")
                    /\ cells'[children'[i]].source = file.cells[i].source]_vars

\* The Code cells among the cell ids of seq, in the order of seq.
CodeOf(seq) == SelectSeq(seq, LAMBDA c : cells[c].kind = "Code")

\* How many times the cell c is in seq.
Count(seq, c) == Cardinality({ i \in 1..Len(seq) : seq[i] = c })

\* The step that ends a run-all: its loop was suspended and is no more.
RunAllEnds == run.pc = "await" /\ run'.pc = "idle"

\* C12: run_all executes every Code cell of the sequence exactly once, in
\* document order and one at a time: a request is submitted only when none
\* is outstanding or in the step that completes the one before, and when a
\* run_all ends, the cells it has submitted are the Code cells of the
\* sequence, each once, in their order.
C12_RunAllEachCodeCellOnceInOrder ==
    [][/\ kernel'.submitted > kernel.submitted =>
             (kernel.state # "Busy" \/ kernel_reply("ok"))
       /\ RunAllEnds => hist.ran = CodeOf(children)]_vars

\* C13: run_all is best-effort: when the execution of a Code cell fails the
\* handler is not left, the first Code cell after it is executed next, and
\* nothing is reported before the run has ended.
C13_RunAllBestEffort ==
    [][(kernel_reply("error") /\ run.pc = "await") =>
         LET later == { j \in run.idx..Len(children) :
                          cells[children[j]].kind = "Code" }
         IN  /\ phase' = "mounted"
             /\ later # {} =>
                  /\ run'.pc = "await"
                  /\ kernel'.pending =
                       children[CHOOSE x \in later : \A y \in later : x <= y]
                  /\ hist'.error = "none"]_vars

\* C14: save is atomic: when the write fails after save has started, the
\* file holds what it held before.
C14_SaveAtomic ==
    [][\A io \in {"ok", "fail"} :
         (action_save(io) /\ hist'.error # "none") => file' = file]_vars

\* C15: save never prompts: invoking save, on the unsaved sentinel path too,
\* does not start the choice of a path, and on the sentinel path it writes
\* no file.
C15_SaveNeverPrompts ==
    [][\A io \in {"ok", "fail"} :
         action_save(io) =>
            /\ screen' = screen
            /\ path = SENTINEL => file' = file]_vars

\* C16: a request to execute a cell while the kernel is Busy fails with
\* KernelBusyError, is not queued and leaves the request in flight, the
\* cells and the suspended loop as they were, also when it is made on the
\* cell whose run is outstanding.
C16_BusyRejects ==
    [][/\ \A c \in Ids :
            (run_cell(c) /\ kernel.state = "Busy") =>
               /\ hist'.error = "KernelBusyError"
               /\ kernel' = kernel
               /\ cells' = cells
               /\ run' = run
       /\ (on_button_pressed("run-all") /\ kernel.state = "Busy"
             /\ CodeOf(children) # <<>>) =>
               /\ hist'.error = "KernelBusyError"
               /\ kernel' = kernel
               /\ cells' = cells]_vars

\* run_cell was asked for again on the cell the suspended run-all is waiting
\* for, and was rejected: the request is still in flight.
C16_Witness ==
    /\ hist.error = "KernelBusyError"
    /\ hist.anchor # None
    /\ hist.anchor = kernel.pending
    /\ kernel.state = "Busy"
    /\ run.pc = "await"
    /\ hist.ran = <<kernel.pending>>

\* C17: when the answer to a request arrives, the cell the request was
\* submitted for (for a run-all, the last cell the loop submitted) is the
\* only one written, whatever has the focus by then, and the sequence and
\* the focus are left alone; a failure writes no cell.
C17_OnlySubmittedCellModified ==
    [][\A o \in {"ok", "error", "crash"} :
         kernel_reply(o) =>
            /\ run.pc = "await" => kernel.pending = hist.ran[Len(hist.ran)]
            /\ \A c \in Ids : c # kernel.pending => cells'[c] = cells[c]
            /\ o = "ok" =>
                 /\ cells'[kernel.pending].outputs = <<"r">>
                 /\ cells'[kernel.pending].execution_count = kernel.counter
            /\ o # "ok" => cells' = cells
            /\ children' = children
            /\ last_focused' = last_focused]_vars

\* The answer came after a cell was inserted while the request was
\* outstanding and the focus was on the new cell: an earlier cell has the
\* result and the new cell has none.
C17_Witness ==
    /\ kernel.state = "Idle"
    /\ hist.error = "none"
    /\ hist.n0 > 0
    /\ Len(cells) > hist.n0
    /\ InSeq(Len(cells))
    /\ last_focused = Len(cells)
    /\ cells[Len(cells)].outputs = <<>>
    /\ \E c \in 1..hist.n0 : cells[c].outputs = <<"r">>

\* C18: while the document is invalid the file at its path is not written.
C18_InvalidNeverWritten == [][~valid_notebook => file' = file]_vars

\* C19: once the view is unmounted the kernel session is Dead.
C19_UnmountedKernelDead == phase = "unmounted" => kernel.state = "Dead"

\* The view was unmounted while a run-all was waiting for the kernel.
C19_Witness ==
    /\ phase = "unmounted"
    /\ run.pc = "await"
    /\ hist.ran # <<>>
    /\ kernel.state = "Dead"

\* C20: when a run_all ends without an error, every Code cell that was in the
\* sequence when it started and is still in it has been submitted exactly
\* once, whatever was inserted or deleted while the loop was suspended.
C20_RunAllStableUnderEdits ==
    [][(RunAllEnds /\ hist'.error = "none") =>
         \A c \in 1..hist.n0 :
            (InSeq(c) /\ cells[c].kind = "Code") => Count(hist.ran, c) = 1]_vars

====
